---------------------------- MODULE Spec2Model ----------------------------
(***************************************************************************)
(* A model of the Logger class of src/src/index.ts.                        *)
(*                                                                         *)
(* Strings are sequences of atoms: an atom is a piece of text that the     *)
(* substitutions never split (a template token such as "{time}", a tag, a  *)
(* file name, a run of literal text).  String.prototype.replace with a     *)
(* string pattern replaces the FIRST occurrence of the pattern and expands *)
(* the special replacement patterns "$$" and "$&"; Replace does the same.  *)
(*                                                                         *)
(* The file system is a set of directories and a map from file paths to    *)
(* [birthtimeMs, data]; data is the sequence of entries written, one per   *)
(* `${message}\n`.  Paths are sequences of segments.                       *)
(***************************************************************************)
EXTENDS Integers, Sequences, FiniteSets, TLC

VARIABLES
    instances,    \* the Logger objects createInstance has returned
    logPath,      \* Logger.logPath, per instance
    doWrite,      \* Logger.doWrite, per instance
    _level,       \* Logger._level, per instance
    _timeFormat,  \* Logger._timeFormat, per instance
    _format,      \* Logger._format, per instance
    fs,           \* the file system: [dirs, files]
    console,      \* the console: [log, warn, error], each a sequence of lines
    now,          \* the clock read by Date.now() and DateTime.now()
    threads,      \* the logging calls in flight, per thread (threaded host only)
    mode,         \* "sync": calls run to completion; "threads": fs steps interleave
    last,         \* history: the last operation, its inputs and the state before it
    lastSet,      \* history: per instance and property, the value last set (or "unset")
    written,      \* history: number of entries the log calls have put on disk
    run,          \* history: the calls that appended to one latest.log in a row
    budget        \* the operations left to the run: [instances, calls, sets, ticks]

vars == <<instances, logPath, doWrite, _level, _timeFormat, _format, fs, console,
          now, threads, mode, last, lastSet, written, run, budget>>

---------------------------------------------------------------------------
(* Bounds of the model.                                                    *)

MaxInstances == 2
MaxCalls == 2
MaxSets == 2
MaxTicks == 2

---------------------------------------------------------------------------
(* export enum LEVEL and the two tag tables.                               *)

debug == 0
info == 1
success == 2
warning == 3
error == 4
notice == 5

LEVEL == {debug, info, success, warning, error, notice}

LEVEL_TAG(level) ==
    CASE level = debug -> " debug "
      [] level = info -> " info  "
      [] level = success -> "success"
      [] level = warning -> "warning"
      [] level = error -> " error "
      [] level = notice -> "notice "

\* chalk.<style>(text): the text wrapped in the style's escape codes.
chalk(style, text) == "<" \o style \o ">" \o text \o "</" \o style \o ">"

LEVEL_COLOR(level) ==
    CASE level = debug -> chalk("gray", " debug ")
      [] level = info -> chalk("blue", " info  ")
      [] level = success -> chalk("greenBright", "success")
      [] level = warning -> chalk("yellowBright", "warning")
      [] level = error -> chalk("redBright", " error ")
      [] level = notice -> chalk("bgRedBright", "notice ")

---------------------------------------------------------------------------
(* Strings.                                                                *)

Range(s) == {s[k] : k \in 1..Len(s)}

RECURSIVE IndexOf(_, _, _)
\* The least index >= from at which atom tok occurs in s, or 0.
IndexOf(s, tok, from) ==
    IF from > Len(s) THEN 0
    ELSE IF s[from] = tok THEN from
    ELSE IndexOf(s, tok, from + 1)

RECURSIVE Expand(_, _)
\* The replacement string with its special patterns expanded: "$$" inserts
\* "$" and "$&" inserts the matched substring.
Expand(val, tok) ==
    IF val = <<>> THEN <<>>
    ELSE LET h == Head(val)
             e == IF h = "$&" THEN tok ELSE IF h = "$$" THEN "$" ELSE h
         IN <<e>> \o Expand(Tail(val), tok)

\* s.replace(tok, val) for a string pattern tok: only the first occurrence.
Replace(s, tok, val) ==
    LET k == IndexOf(s, tok, 1)
    IN IF k = 0 THEN s
       ELSE SubSeq(s, 1, k - 1) \o Expand(val, tok) \o SubSeq(s, k + 1, Len(s))

RECURSIVE Join(_, _)
\* parsed.join(sep)
Join(parts, sep) ==
    IF parts = <<>> THEN <<>>
    ELSE IF Len(parts) = 1 THEN parts[1]
    ELSE parts[1] \o <<sep>> \o Join(Tail(parts), sep)

\* One argument of a log call as log() pushes it: inspect(arg) for an object,
\* the value itself (stringified by join) otherwise.
Parse(arg) ==
    IF arg.type = "object" THEN <<"{ " \o arg.key \o ": " \o ToString(arg.num) \o " }">>
    ELSE IF arg.type = "number" THEN <<ToString(arg.num)>>
    ELSE arg.str

\* const line = parsed.join(' ')
Line(args) == Join([k \in 1..Len(args) |-> Parse(args[k])], " ")

---------------------------------------------------------------------------
(* Stack frames: what StackTrace.getSync() returns.                        *)

Frame(file, line, fn, col) ==
    [fileName |-> file, lineNumber |-> line, functionName |-> fn, columnNumber |-> col]

LevelName(level) ==
    CASE level = debug -> "debug"
      [] level = info -> "info"
      [] level = success -> "success"
      [] level = warning -> "warning"
      [] level = error -> "error"
      [] level = notice -> "notice"

\* The frame of the per-level operation, at its call of this.log (lines 164..219).
LevelFrame(level) ==
    Frame("index.ts", 164 + 11 * level, "Logger." \o LevelName(level), 10)

\* The frame of log() at its call of this.writeLine (line 232).
LogFrameAtWriteLine == Frame("index.ts", 232, "Logger.log", 10)

\* The frame of log() at its own call of StackTrace.getSync (line 239).
LogFrameAtGetSync == Frame("index.ts", 239, "Logger.log", 30)

\* The frame of writeLine() at its call of StackTrace.getSync (line 278).
WriteLineFrame == Frame("index.ts", 278, "Logger.writeLine", 30)

\* StackTrace.getSync(): the frames of the call stack, innermost first (the
\* library filters its own frames out), at most stackTraceLimit of them.
getSync(callStack, stackTraceLimit) ==
    SubSeq(callStack, 1, IF stackTraceLimit < Len(callStack) THEN stackTraceLimit
                         ELSE Len(callStack))

\* The call stack seen from log(): log <- per-level operation <- user code.
StackInLog(level, userStack) ==
    <<LogFrameAtGetSync, LevelFrame(level)>> \o userStack

\* The call stack seen from writeLine(): one frame deeper.
StackInWriteLine(level, userStack) ==
    <<WriteLineFrame, LogFrameAtWriteLine, LevelFrame(level)>> \o userStack

---------------------------------------------------------------------------
(* Formatting.                                                             *)

\* DateTime.now().toFormat(this._timeFormat)
getTime(i, t) == _timeFormat[i] \o "@" \o ToString(t)

\* The three unconditional replacements (lines 234-237 and 273-276).
Substitute(i, tag, line, t) ==
    Replace(Replace(Replace(_format[i], "{time}", <<getTime(i, t)>>),
                    "{level}", <<tag>>),
            "{content}", line)

\* The four location replacements, made when the trace has 3 frames or more
\* (lines 241-247 and 280-286); trace[2] is the third frame.
Locate(message, trace) ==
    IF Len(trace) >= 3
    THEN Replace(Replace(Replace(Replace(message,
             "{fileName}", <<trace[3].fileName>>),
             "{lineNumber}", <<ToString(trace[3].lineNumber)>>),
             "{functionName}", <<trace[3].functionName>>),
             "{columnNumber}", <<ToString(trace[3].columnNumber)>>)
    ELSE message

\* The file variant of the line, as writeLine builds it.
FileMessage(i, level, line, userStack, limit, t) ==
    Locate(Substitute(i, LEVEL_TAG(level), line, t),
           getSync(StackInWriteLine(level, userStack), limit))

\* The console variant of the line, as log builds it.
ConsoleMessage(i, level, line, userStack, limit, t) ==
    Locate(Substitute(i, LEVEL_COLOR(level), line, t),
           getSync(StackInLog(level, userStack), limit))

\* checkLevel with the comparison turned round.
checkLevel_reversed(i, level) == level <= _level[i]

\* private checkLevel(level)
checkLevel(i, level) == level >= _level[i]

---------------------------------------------------------------------------
(* The file system calls of writeLine.  Each returns [ok, fs]; ok = FALSE  *)
(* is the call throwing.  faults are the calls the environment makes fail  *)
(* (permissions, disk full) on top of the failures the state itself causes.*)

path_join(dir, name) == Append(dir, name)

Parent(p) == SubSeq(p, 1, Len(p) - 1)

existsSync(f, p) == p \in f.dirs \/ p \in DOMAIN f.files

mkdirSync(f, p, faults) ==
    IF "mkdirSync" \in faults \/ Parent(p) \notin f.dirs \/ existsSync(f, p)
    THEN [ok |-> FALSE, fs |-> f]
    ELSE [ok |-> TRUE, fs |-> [f EXCEPT !.dirs = @ \cup {p}]]

statSync(f, p, faults) ==
    IF "statSync" \in faults \/ p \notin DOMAIN f.files
    THEN [ok |-> FALSE, birthtimeMs |-> 0]
    ELSE [ok |-> TRUE, birthtimeMs |-> f.files[p].birthtimeMs]

\* rename(2): the file keeps its birth time; an existing target is replaced.
renameSync(f, old, new, faults) ==
    IF "renameSync" \in faults \/ old \notin DOMAIN f.files \/ Parent(new) \notin f.dirs
    THEN [ok |-> FALSE, fs |-> f]
    ELSE [ok |-> TRUE,
          fs |-> [f EXCEPT !.files =
                    [q \in (DOMAIN f.files \ {old}) \cup {new} |->
                        IF q = new THEN f.files[old] ELSE f.files[q]]]]

\* The file's data after the entry is added (flag 'a') or replaces it (flag 'w').
PutEntry(f, p, entry, t, truncate) ==
    [f EXCEPT !.files =
        [q \in DOMAIN f.files \cup {p} |->
            IF q # p THEN f.files[q]
            ELSE IF p \in DOMAIN f.files
                 THEN [birthtimeMs |-> f.files[p].birthtimeMs,
                       data |-> IF truncate THEN <<entry>>
                                ELSE Append(f.files[p].data, entry)]
                 ELSE [birthtimeMs |-> t, data |-> <<entry>>]]]

appendFileSync(f, p, entry, t, faults) ==
    IF "appendFileSync" \in faults \/ Parent(p) \notin f.dirs \/ p \in f.dirs
    THEN [ok |-> FALSE, fs |-> f]
    ELSE [ok |-> TRUE, fs |-> PutEntry(f, p, entry, t, FALSE)]

writeFileSync(f, p, entry, t, faults) ==
    IF "writeFileSync" \in faults \/ Parent(p) \notin f.dirs \/ p \in f.dirs
    THEN [ok |-> FALSE, fs |-> f]
    ELSE [ok |-> TRUE, fs |-> PutEntry(f, p, entry, t, TRUE)]

\* The age at which latest.log is rotated (line 289: 8.64e7).
RotateMs == 86400000

DayMs == 24 * 60 * 60 * 1000

Pad2(n) == IF n < 10 THEN "0" \o ToString(n) ELSE ToString(n)

\* new Date(ms).toLocaleDateString('en-CA'): YYYY-MM-DD (UTC, first month of the epoch).
toLocaleDateString(ms) == "1970-01-" \o Pad2((ms \div DayMs) + 1)

\* `output-${...}.log` (lines 290-292)
newName(birthtimeMs) == "output-" \o toLocaleDateString(birthtimeMs) \o ".log"

---------------------------------------------------------------------------
(* One logging call, as the sequence of its steps.  A call is a record:    *)
(* pc is the next step, ops the file-system and console calls made so far, *)
(* failed those of them that threw, wrote the entries put on disk, thrown  *)
(* whether the call ended by throwing to its caller.  The world w is       *)
(* [fs, console]; t is the clock at the step.                              *)

Idle == [pc |-> "idle"]

NewCall(i, level, args, userStack, limit, faults) ==
    [pc |-> "check", inst |-> i, level |-> level, args |-> args, stack |-> userStack,
     limit |-> limit, faults |-> faults, line |-> <<>>, message |-> <<>>,
     birthtimeMs |-> 0, thrown |-> FALSE, ops |-> <<>>, failed |-> {}, wrote |-> 0]

\* path.join(dir, 'latest.log')
output_of(dir) == path_join(dir, "latest.log")

\* const output = path.join(this.logPath, 'latest.log') (line 272)
output(i) == output_of(logPath[i])

\* The age test with > for >=.
IsOld_strict(t, birthtimeMs) == t - birthtimeMs > RotateMs

\* Date.now() - stat.birthtimeMs >= 8.64e7 (line 289)
IsOld(t, birthtimeMs) == t - birthtimeMs >= RotateMs

\* The switch with warnings sent to console.error as well.
Stream_warningAsError(level) ==
    IF level = error \/ level = warning THEN "error" ELSE "log"

\* The console method log() ends with (lines 249-258).
Stream(level) ==
    IF level = error THEN "error"
    ELSE IF level = warning THEN "warn"
    ELSE "log"

\* Lines 223-231: the level filter, then the content line.
StepCheck(w, c, t) ==
    IF ~checkLevel(c.inst, c.level)
    THEN [w |-> w, c |-> [c EXCEPT !.pc = "done"]]
    ELSE [w |-> w, c |-> [c EXCEPT !.line = Line(c.args), !.pc = "writeLine"]]

\* writeLine without its first line: the flag is not looked at.
StepWriteLine_ignoresFlag(w, c, t) == [w |-> w, c |-> [c EXCEPT !.pc = "exists"]]

\* Line 270: if (!this.doWrite) return
StepWriteLine(w, c, t) ==
    IF ~doWrite[c.inst]
    THEN [w |-> w, c |-> [c EXCEPT !.pc = "console"]]
    ELSE [w |-> w, c |-> [c EXCEPT !.pc = "exists"]]

\* Lines 273-286, entered once the directory is there.
Formatted(c, t) ==
    [c EXCEPT !.message = FileMessage(c.inst, c.level, c.line, c.stack, c.limit, t),
              !.pc = "stat"]

\* Line 271: fs.existsSync(this.logPath)
StepExists(w, c, t) ==
    LET c1 == [c EXCEPT !.ops = Append(@, "existsSync")]
    IN IF existsSync(w.fs, logPath[c.inst])
       THEN [w |-> w, c |-> Formatted(c1, t)]
       ELSE [w |-> w, c |-> [c1 EXCEPT !.pc = "mkdir"]]

\* Line 271: fs.mkdirSync(this.logPath), outside the try: a failure throws.
StepMkdir(w, c, t) ==
    LET r == mkdirSync(w.fs, logPath[c.inst], c.faults)
        c1 == [c EXCEPT !.ops = Append(@, "mkdirSync")]
    IN IF r.ok
       THEN [w |-> [w EXCEPT !.fs = r.fs], c |-> Formatted(c1, t)]
       ELSE [w |-> w, c |-> [c1 EXCEPT !.failed = @ \cup {"mkdirSync"},
                                       !.thrown = TRUE, !.pc = "done"]]

\* Lines 288-289: statSync and the age test; a failure goes to the catch.
StepStat(w, c, t) ==
    LET r == statSync(w.fs, output(c.inst), c.faults)
        c1 == [c EXCEPT !.ops = Append(@, "statSync")]
    IN IF r.ok
       THEN [w |-> w,
             c |-> [c1 EXCEPT !.birthtimeMs = r.birthtimeMs,
                              !.pc = IF IsOld(t, r.birthtimeMs) THEN "rename"
                                     ELSE "append"]]
       ELSE [w |-> w, c |-> [c1 EXCEPT !.failed = @ \cup {"statSync"}, !.pc = "write"]]

\* Lines 290-293: renameSync; a failure goes to the catch.
StepRename(w, c, t) ==
    LET r == renameSync(w.fs, output(c.inst),
                        path_join(logPath[c.inst], newName(c.birthtimeMs)), c.faults)
        c1 == [c EXCEPT !.ops = Append(@, "renameSync")]
    IN IF r.ok
       THEN [w |-> [w EXCEPT !.fs = r.fs], c |-> [c1 EXCEPT !.pc = "append"]]
       ELSE [w |-> w, c |-> [c1 EXCEPT !.failed = @ \cup {"renameSync"}, !.pc = "write"]]

\* The append made with writeFileSync: the file is replaced.
StepAppend_overwrites(w, c, t) ==
    LET r == writeFileSync(w.fs, output(c.inst), c.message, t, c.faults)
        c1 == [c EXCEPT !.ops = Append(@, "appendFileSync")]
    IN IF r.ok
       THEN [w |-> [w EXCEPT !.fs = r.fs],
             c |-> [c1 EXCEPT !.wrote = @ + 1, !.pc = "console"]]
       ELSE [w |-> w, c |-> [c1 EXCEPT !.failed = @ \cup {"appendFileSync"},
                                       !.pc = "write"]]

\* The append made twice.
StepAppend_twice(w, c, t) ==
    LET r == appendFileSync(w.fs, output(c.inst), c.message, t, c.faults)
        r2 == appendFileSync(r.fs, output(c.inst), c.message, t, c.faults)
        c1 == [c EXCEPT !.ops = Append(@, "appendFileSync")]
    IN IF r.ok
       THEN [w |-> [w EXCEPT !.fs = r2.fs],
             c |-> [c1 EXCEPT !.wrote = @ + 1, !.pc = "console"]]
       ELSE [w |-> w, c |-> [c1 EXCEPT !.failed = @ \cup {"appendFileSync"},
                                       !.pc = "write"]]

\* Line 295: appendFileSync; a failure goes to the catch.
StepAppend(w, c, t) ==
    LET r == appendFileSync(w.fs, output(c.inst), c.message, t, c.faults)
        c1 == [c EXCEPT !.ops = Append(@, "appendFileSync")]
    IN IF r.ok
       THEN [w |-> [w EXCEPT !.fs = r.fs],
             c |-> [c1 EXCEPT !.wrote = @ + 1, !.pc = "console"]]
       ELSE [w |-> w, c |-> [c1 EXCEPT !.failed = @ \cup {"appendFileSync"},
                                       !.pc = "write"]]

\* Line 297, the catch: writeFileSync; a failure here throws out of the call.
StepWrite(w, c, t) ==
    LET r == writeFileSync(w.fs, output(c.inst), c.message, t, c.faults)
        c1 == [c EXCEPT !.ops = Append(@, "writeFileSync")]
    IN IF r.ok
       THEN [w |-> [w EXCEPT !.fs = r.fs],
             c |-> [c1 EXCEPT !.wrote = @ + 1, !.pc = "console"]]
       ELSE [w |-> w, c |-> [c1 EXCEPT !.failed = @ \cup {"writeFileSync"},
                                       !.thrown = TRUE, !.pc = "done"]]

\* Lines 234-258: the console variant, to the stream of the level.
StepConsole(w, c, t) ==
    LET message == ConsoleMessage(c.inst, c.level, c.line, c.stack, c.limit, t)
        stream == Stream(c.level)
    IN [w |-> [w EXCEPT !.console[stream] = Append(@, message)],
        c |-> [c EXCEPT !.ops = Append(@, "console." \o stream), !.pc = "done"]]

Step(w, c, t) ==
    CASE c.pc = "check" -> StepCheck(w, c, t)
      [] c.pc = "writeLine" -> StepWriteLine(w, c, t)
      [] c.pc = "exists" -> StepExists(w, c, t)
      [] c.pc = "mkdir" -> StepMkdir(w, c, t)
      [] c.pc = "stat" -> StepStat(w, c, t)
      [] c.pc = "rename" -> StepRename(w, c, t)
      [] c.pc = "append" -> StepAppend(w, c, t)
      [] c.pc = "write" -> StepWrite(w, c, t)
      [] c.pc = "console" -> StepConsole(w, c, t)

RECURSIVE Run(_, _, _)
\* The call run to its end, as the synchronous program runs it.
Run(w, c, t) ==
    IF c.pc = "done" THEN [w |-> w, c |-> c]
    ELSE LET r == Step(w, c, t) IN Run(r.w, r.c, t)

\* private log(level, ...args), called through the per-level operation.
log(w, i, level, args, userStack, limit, faults, t) ==
    Run(w, NewCall(i, level, args, userStack, limit, faults), t)

---------------------------------------------------------------------------
(* The values the operations are tried with.                               *)

Cwd == <<"cwd">>

\* path.join(process.cwd(), 'logs') (line 37)
DefaultPath == path_join(Cwd, "logs")

\* A directory whose parent does not exist: mkdirSync is not recursive.
DeepPath == <<"cwd", "var", "logs">>

DefaultTimeFormat == "D TT"

DefaultFormat == <<"{time}", " [", "{level}", "] ", "{content}">>

LocationFormat ==
    <<"{content}", " at ", "{fileName}", ":", "{lineNumber}", ":", "{columnNumber}",
      " in ", "{functionName}">>

RepeatFormat == <<"{level}", " ", "{content}", " ", "{level}">>

Str(s) == [type |-> "string", str |-> s, key |-> "", num |-> 0]

Num(n) == [type |-> "number", str |-> <<>>, key |-> "", num |-> n]

Obj(k, n) == [type |-> "object", str |-> <<>>, key |-> k, num |-> n]

HelloArgs == <<Str(<<"hello">>), Num(3), Str(<<"args">>)>>

ObjectArgs == <<Str(<<"user">>), Obj("a", 1)>>

TokenArgs == <<Str(<<"open ", "{fileName}">>)>>

DollarArgs == <<Str(<<"cost ", "$&">>)>>

UserFrame == Frame("app.ts", 12, "main", 5)

OuterFrame == Frame("boot.ts", 3, "start", 1)

NoFaults == {}

FsCalls == {"mkdirSync", "statSync", "renameSync", "appendFileSync", "writeFileSync"}

\* The failures tried: none, each call alone, each two calls together.
Faults == {F \in SUBSET FsCalls : Cardinality(F) <= 2}

\* The clock when the model starts: noon of the second day.
StartMs == DayMs + DayMs \div 2

OldEntry == <<"D TT@0", " [", " info  ", "] ", "old">>

EmptyFs == [dirs |-> {Cwd}, files |-> [q \in {} |-> 0]]

\* A log directory left by an earlier run: latest.log born at the start time.
UsedFs ==
    [dirs |-> {Cwd, DefaultPath},
     files |-> (output_of(DefaultPath) :> [birthtimeMs |-> StartMs, data |-> <<OldEntry>>])]

\* The same, with latest.log born 24 hours before the start time.
OldFs ==
    [dirs |-> {Cwd, DefaultPath},
     files |-> (output_of(DefaultPath) :>
                   [birthtimeMs |-> StartMs - RotateMs, data |-> <<OldEntry>>])]

---------------------------------------------------------------------------
(* The state after start-up, and the operations.                           *)

NeverSet == [set |-> FALSE]

WasSet(v) == [set |-> TRUE, value |-> v]

\* The number of entries in all files of the file system.
RECURSIVE Entries(_, _)
Entries(f, paths) ==
    IF paths = {} THEN 0
    ELSE LET q == CHOOSE x \in paths : TRUE
         IN Len(f.files[q].data) + Entries(f, paths \ {q})

OnDisk(f) == Entries(f, DOMAIN f.files)

NoRun == [on |-> FALSE]

InitWith(m, f, b) ==
    /\ instances = {}
    /\ logPath = <<>>
    /\ doWrite = <<>>
    /\ _level = <<>>
    /\ _timeFormat = <<>>
    /\ _format = <<>>
    /\ fs = f
    /\ console = [log |-> <<>>, warn |-> <<>>, error |-> <<>>]
    /\ now = StartMs
    /\ threads = <<>>
    /\ mode = m
    /\ last = [op |-> "none"]
    /\ lastSet = <<>>
    /\ written = OnDisk(f)
    /\ run = NoRun
    /\ budget = b

Budget(i, c, s, t) == [instances |-> i, calls |-> c, sets |-> s, ticks |-> t]

Init == \E f \in {EmptyFs, UsedFs, OldFs} : InitWith("sync", f, Budget(1, MaxCalls, MaxSets, 0))

\* The field initialisers of the class (lines 37-44).
Defaults ==
    [logPath |-> DefaultPath, doWrite |-> TRUE, _level |-> info,
     _timeFormat |-> DefaultTimeFormat, _format |-> DefaultFormat]

\* public static createInstance()
createInstance ==
    /\ budget.instances > 0
    /\ budget' = [budget EXCEPT !.instances = @ - 1]
    /\ LET i == Cardinality(instances) + 1
           d == Defaults
       IN /\ instances' = instances \cup {i}
          /\ logPath' = Append(logPath, d.logPath)
          /\ doWrite' = Append(doWrite, d.doWrite)
          /\ _level' = Append(_level, d._level)
          /\ _timeFormat' = Append(_timeFormat, d._timeFormat)
          /\ _format' = Append(_format, d._format)
          /\ threads' = Append(threads, Idle)
          /\ lastSet' = Append(lastSet, [path |-> NeverSet, writeFile |-> NeverSet,
                                         level |-> NeverSet, timeFormat |-> NeverSet,
                                         logFormat |-> NeverSet])
          /\ last' = [op |-> "create", inst |-> i]
    /\ UNCHANGED <<fs, console, now, mode, written, run>>

\* No call of instance i is in flight.
Quiet(i) == threads[i].pc \in {"idle", "done"}

Setting(i, prop, v) ==
    /\ i \in instances
    /\ Quiet(i)
    /\ budget.sets > 0
    /\ budget' = [budget EXCEPT !.sets = @ - 1]
    /\ lastSet' = [lastSet EXCEPT ![i][prop] = WasSet(v)]
    /\ last' = [op |-> "set", inst |-> i]
    /\ UNCHANGED <<instances, fs, console, now, threads, mode, written, run>>

\* The assignment to a field all instances share (a static field).
Assign_shared(field, i, v) == [j \in DOMAIN field |-> v]

\* The target of an assignment this.<field> = value in a setter of instance i.
Assign(field, i, v) == [field EXCEPT ![i] = v]

\* public set path(value)
set_path(i, v) ==
    /\ Setting(i, "path", v)
    /\ logPath' = Assign(logPath, i, v)
    /\ UNCHANGED <<doWrite, _level, _timeFormat, _format>>

\* public set writeFile(value)
set_writeFile(i, v) ==
    /\ Setting(i, "writeFile", v)
    /\ doWrite' = Assign(doWrite, i, v)
    /\ UNCHANGED <<logPath, _level, _timeFormat, _format>>

\* public set level(value)
set_level(i, v) ==
    /\ Setting(i, "level", v)
    /\ _level' = Assign(_level, i, v)
    /\ UNCHANGED <<logPath, doWrite, _timeFormat, _format>>

\* public set timeFormat(value)
set_timeFormat(i, v) ==
    /\ Setting(i, "timeFormat", v)
    /\ _timeFormat' = Assign(_timeFormat, i, v)
    /\ UNCHANGED <<logPath, doWrite, _level, _format>>

\* public set logFormat(value)
set_logFormat(i, v) ==
    /\ Setting(i, "logFormat", v)
    /\ _format' = Assign(_format, i, v)
    /\ UNCHANGED <<logPath, doWrite, _level, _timeFormat>>

\* The getters (lines 62-137).
get_path(i) == logPath[i]

get_writeFile(i) == doWrite[i]

get_level(i) == _level[i]

get_timeFormat(i) == _timeFormat[i]

get_logFormat(i) == _format[i]

\* A file-system call of the call c failed for another reason than latest.log
\* not being there yet (the ordinary way to the first write).
FsFailure(c) == c.failed \ (IF "statSync" \in c.faults THEN {} ELSE {"statSync"}) # {}

\* The history of appends after the finished call c, which found the file system f.
RunAfter(c, f) ==
    LET p == output(c.inst)
    IN IF c.wrote = 0 /\ c.failed = {} THEN run
       ELSE IF FsFailure(c) THEN NoRun
       ELSE IF p \notin DOMAIN f.files \/ "renameSync" \in Range(c.ops)
       THEN [on |-> TRUE, path |-> p, base |-> <<>>, lines |-> <<c.message>>]
       ELSE IF run.on /\ run.path = p
       THEN [run EXCEPT !.lines = Append(@, c.message)]
       ELSE [on |-> TRUE, path |-> p, base |-> f.files[p].data, lines |-> <<c.message>>]

\* One of debug(), info(), success(), warning(), error(), notice(), run to its
\* end: the synchronous program.
Log(i, level, args, userStack, limit, faults) ==
    /\ i \in instances
    /\ budget.calls > 0
    /\ LET r == log([fs |-> fs, console |-> console], i, level, args, userStack,
                    limit, faults, now)
       IN /\ fs' = r.w.fs
          /\ console' = r.w.console
          /\ written' = written + r.c.wrote
          /\ run' = RunAfter(r.c, fs)
          /\ last' = [op |-> "log", call |-> r.c, fs |-> fs, console |-> console,
                      now |-> now]
    /\ budget' = [budget EXCEPT !.calls = @ - 1]
    /\ UNCHANGED <<instances, logPath, doWrite, _level, _timeFormat, _format, now,
                   threads, mode, lastSet>>

\* Time passes.
Tick(d) ==
    /\ budget.ticks > 0
    /\ now' = now + d
    /\ budget' = [budget EXCEPT !.ticks = @ - 1]
    /\ last' = [op |-> "tick"]
    /\ UNCHANGED <<instances, logPath, doWrite, _level, _timeFormat, _format, fs,
                   console, threads, mode, lastSet, written, run>>

\* The steps of time: a second, and what is left of 24 hours after a second.
Ticks == {1000, RotateMs - 1000}

Next ==
    \/ createInstance
    \/ \E i \in instances : set_path(i, DeepPath)
    \/ \E i \in instances, v \in BOOLEAN : set_writeFile(i, v)
    \/ \E i \in instances, v \in LEVEL : set_level(i, v)
    \/ \E i \in instances, level \in LEVEL :
          Log(i, level, HelloArgs, <<UserFrame>>, 10, NoFaults)

Spec == Init /\ [][Next]_vars

---------------------------------------------------------------------------
(* The rotating append with no, one or two of its file-system calls        *)
(* failing, the calls a second or a day apart.                             *)

InitRotate ==
    \E f \in {EmptyFs, UsedFs} : InitWith("sync", f, Budget(1, MaxCalls, 1, MaxTicks))

NextRotate ==
    \/ createInstance
    \/ \E i \in instances : set_writeFile(i, FALSE)
    \/ \E i \in instances, faults \in Faults :
          Log(i, info, HelloArgs, <<UserFrame>>, 10, faults)
    \/ \E d \in Ticks : Tick(d)

SpecRotate == InitRotate /\ [][NextRotate]_vars

---------------------------------------------------------------------------
(* The configuration surface on two instances.                             *)

InitConfig == InitWith("sync", EmptyFs, Budget(MaxInstances, 1, MaxSets, 0))

NextConfig ==
    \/ createInstance
    \/ \E i \in instances, v \in {DefaultPath, DeepPath} : set_path(i, v)
    \/ \E i \in instances, v \in BOOLEAN : set_writeFile(i, v)
    \/ \E i \in instances, v \in {debug, info, notice} : set_level(i, v)
    \/ \E i \in instances, v \in {DefaultTimeFormat, "T"} : set_timeFormat(i, v)
    \/ \E i \in instances, v \in {DefaultFormat, LocationFormat} : set_logFormat(i, v)
    \/ \E i \in instances, level \in {info, error} :
          Log(i, level, HelloArgs, <<UserFrame>>, 10, NoFaults)

SpecConfig == InitConfig /\ [][NextConfig]_vars

---------------------------------------------------------------------------
(* Formatting: templates, contents and call stacks.                        *)

InitFormat == \E f \in {EmptyFs, UsedFs} : InitWith("sync", f, Budget(1, 1, 1, 0))

NextFormat ==
    \/ createInstance
    \/ \E i \in instances, v \in {LocationFormat, RepeatFormat} : set_logFormat(i, v)
    \/ \E i \in instances, level \in {info, warning},
          args \in {HelloArgs, ObjectArgs, TokenArgs, DollarArgs},
          userStack \in {<<UserFrame>>, <<UserFrame, OuterFrame>>},
          limit \in {2, 3, 10} :
          Log(i, level, args, userStack, limit, NoFaults)

SpecFormat == InitFormat /\ [][NextFormat]_vars

---------------------------------------------------------------------------
(* A host with threads: each instance logs from its own thread, and the    *)
(* steps of the calls in flight interleave.  In mode "sync" a call starts  *)
(* only when no other is in flight: the single-threaded program.           *)

Begin(i, level, args, userStack, limit, faults) ==
    /\ i \in instances
    /\ Quiet(i)
    /\ mode = "sync" => \A j \in instances : Quiet(j)
    /\ budget.calls > 0
    /\ budget' = [budget EXCEPT !.calls = @ - 1]
    /\ threads' = [threads EXCEPT ![i] = NewCall(i, level, args, userStack, limit, faults)]
    /\ last' = [op |-> "begin", inst |-> i]
    /\ UNCHANGED <<instances, logPath, doWrite, _level, _timeFormat, _format, fs,
                   console, now, mode, lastSet, written, run>>

ThreadStep(i) ==
    /\ i \in instances
    /\ ~Quiet(i)
    /\ LET r == Step([fs |-> fs, console |-> console], threads[i], now)
       IN /\ fs' = r.w.fs
          /\ console' = r.w.console
          /\ threads' = [threads EXCEPT ![i] = r.c]
          /\ written' = written + (r.c.wrote - threads[i].wrote)
    /\ last' = [op |-> "step", inst |-> i]
    /\ UNCHANGED <<instances, logPath, doWrite, _level, _timeFormat, _format, now,
                   mode, lastSet, run, budget>>

InitThreads ==
    \E m \in {"sync", "threads"} : InitWith(m, UsedFs, Budget(MaxInstances, MaxCalls, 0, 1))

NextThreads ==
    \/ createInstance
    \/ \E i \in instances : Begin(i, info, HelloArgs, <<UserFrame>>, 10, NoFaults)
    \/ \E i \in instances : ThreadStep(i)
    \/ Tick(RotateMs)

SpecThreads == InitThreads /\ [][NextThreads]_vars

---------------------------------------------------------------------------
(* Vocabulary of the properties.                                           *)

\* The last operation was a logging call.
Logged == last.op = "log"

\* ... and it passed the level filter of its instance.
Passed == Logged /\ last.call.level >= _level[last.call.inst]

\* ... and it was filtered out.
Filtered == Logged /\ last.call.level < _level[last.call.inst]

Lines(c) == Len(c.log) + Len(c.warn) + Len(c.error)

\* What the last call added to a stream: the lines after those that were there.
Added(stream) ==
    SubSeq(console[stream], Len(last.console[stream]) + 1, Len(console[stream]))

Streams == {"log", "warn", "error"}

\* The stream the contract gives a level.
StreamOf(level) ==
    CASE level = error -> "error"
      [] level = warning -> "warn"
      [] OTHER -> "log"

\* The last call wrote one line to the stream of its level and nothing elsewhere.
OneLineOnItsStream ==
    /\ Len(Added(StreamOf(last.call.level))) = 1
    /\ \A s \in Streams \ {StreamOf(last.call.level)} : console[s] = last.console[s]
    /\ \A s \in Streams : SubSeq(console[s], 1, Len(last.console[s])) = last.console[s]

FsCallsMade(c) == Range(c.ops) \cap (FsCalls \cup {"existsSync"})

\* latest.log of the last call's instance, before and after the call.
LatestBefore == last.fs.files[output(last.call.inst)]

LatestAfter == fs.files[output(last.call.inst)]

HadLatest == Logged /\ output(last.call.inst) \in DOMAIN last.fs.files

HasLatest == Logged /\ output(last.call.inst) \in DOMAIN fs.files

---------------------------------------------------------------------------
(* C1: when the minimum level is L2 and rank(L1) < rank(L2), a call of the *)
(* L1 operation writes to no console stream and leaves the file system as  *)
(* it was (no directory made, latest.log not written or renamed), whatever *)
(* the arguments and the write-to-file setting.                            *)
C1_FilteredCallDoesNothing ==
    Filtered =>
        /\ console = last.console
        /\ fs = last.fs
        /\ last.call.ops = <<>>
        /\ ~last.call.thrown

\* A filtered call at the top pair of levels, with writing on and an old latest.log.
C1_Witness ==
    /\ Filtered
    /\ last.call.level = error
    /\ _level[last.call.inst] = notice
    /\ doWrite[last.call.inst]
    /\ HadLatest
    /\ IsOld(last.now, LatestBefore.birthtimeMs)

---------------------------------------------------------------------------
(* C5 as stated: every call that passes the filter writes its line to      *)
(* exactly one stream, chosen by the level alone: console.error for error, *)
(* console.warn for warning, console.log for the other four.               *)
C5_AsStated == Passed => OneLineOnItsStream

(* C5, amended: the same for every passing call whose file write does not  *)
(* throw; a call whose file write throws (mkdirSync, or writeFileSync in   *)
(* the catch) writes to no stream.                                         *)
C5_StreamByLevel ==
    Passed =>
        IF last.call.thrown THEN console = last.console
        ELSE OneLineOnItsStream

\* A warning that passed with a minimum level other than the default, writing off.
C5_Witness ==
    /\ Passed
    /\ last.call.level = warning
    /\ _level[last.call.inst] = debug
    /\ ~doWrite[last.call.inst]
    /\ Len(Added("warn")) = 1

---------------------------------------------------------------------------
(* C8: with write-to-file off, a call that passes the filter leaves the    *)
(* file system unchanged (no directory made; latest.log not created,       *)
(* appended to, renamed or truncated, even when it is older than 24 hours) *)
(* and still writes its one console line; with write-to-file on again, the *)
(* next call that returns has put its line at the end of latest.log.       *)
C8_WriteFlagDecides ==
    Passed =>
        /\ ~doWrite[last.call.inst] =>
              /\ fs = last.fs
              /\ FsCallsMade(last.call) = {}
              /\ Lines(console) = Lines(last.console) + 1
        /\ (doWrite[last.call.inst] /\ ~last.call.thrown) =>
              /\ HasLatest
              /\ LatestAfter.data[Len(LatestAfter.data)] = last.call.message
              /\ fs # last.fs

\* A passing call with writing off while latest.log is 24 hours old.
C8_Witness ==
    /\ Passed
    /\ ~doWrite[last.call.inst]
    /\ HadLatest
    /\ IsOld(last.now, LatestBefore.birthtimeMs)
    /\ Lines(console) = Lines(last.console) + 1

---------------------------------------------------------------------------
---------------------------------------------------------------------------
(* C3: a passing call at time now, write-to-file on, latest.log there with *)
(* creation time T and contents C, no file-system failure.  If now - T >=  *)
(* 86 400 000 the old file becomes output-<date of T>.log, holding C, and  *)
(* latest.log is a fresh file holding the new line alone.  Otherwise       *)
(* nothing is renamed and latest.log holds C and then the new line.  No    *)
(* call stats latest.log or renames it more than once.                     *)
Times(op, ops) == Cardinality({k \in 1..Len(ops) : ops[k] = op})

Archive == path_join(logPath[last.call.inst],
                     "output-" \o toLocaleDateString(LatestBefore.birthtimeMs) \o ".log")

C3_RotatingAppend ==
    /\ Logged => Times("statSync", last.call.ops) <= 1
    /\ Logged => Times("renameSync", last.call.ops) <= 1
    /\ (Passed /\ doWrite[last.call.inst] /\ HadLatest /\ ~FsFailure(last.call)) =>
          IF last.now - LatestBefore.birthtimeMs >= 86400000
          THEN /\ Archive \in DOMAIN fs.files
               /\ fs.files[Archive].data = LatestBefore.data
               /\ DOMAIN fs.files = DOMAIN last.fs.files \cup {Archive}
               /\ LatestAfter = [birthtimeMs |-> last.now, data |-> <<last.call.message>>]
          ELSE /\ DOMAIN fs.files = DOMAIN last.fs.files
               /\ LatestAfter = [LatestBefore EXCEPT
                                    !.data = Append(@, last.call.message)]

\* A call exactly 24 hours after latest.log was created rotated it.
C3_Witness ==
    /\ Passed
    /\ HadLatest
    /\ ~FsFailure(last.call)
    /\ last.now - LatestBefore.birthtimeMs = 86400000
    /\ <<"cwd", "logs", "output-1970-01-02.log">> \in DOMAIN fs.files
    /\ fs.files[<<"cwd", "logs", "output-1970-01-02.log">>].data = <<OldEntry>>
    /\ Len(LatestAfter.data) = 1

---------------------------------------------------------------------------
(* C4 as stated: when renameSync fails during rotation, or the append or   *)
(* the write of the line fails, the call throws the error to its caller    *)
(* and what latest.log held is still there; only a failing statSync is     *)
(* taken as "no file, start a fresh one".                                  *)
C4_AsStated ==
    (Passed /\ last.call.failed \cap {"renameSync", "appendFileSync", "writeFileSync"} # {}) =>
        /\ last.call.thrown
        /\ HadLatest =>
              /\ HasLatest
              /\ SubSeq(LatestAfter.data, 1, Len(LatestBefore.data)) = LatestBefore.data

---------------------------------------------------------------------------
(* C6: on every instance, after any sequence of sets and logging calls,    *)
(* each configuration property reads as the value last set on that         *)
(* instance, or as its default when never set (directory <cwd>/logs,       *)
(* level info, write-to-file true, format "{time} [{level}] {content}");   *)
(* logging changes no property, and a set on one instance changes no       *)
(* property of another.                                                    *)
ReadsAs(got, set, default) == IF set.set THEN got = set.value ELSE got = default

C6_ConfigRoundTrip ==
    \A i \in instances :
        /\ ReadsAs(get_path(i), lastSet[i].path, <<"cwd", "logs">>)
        /\ ReadsAs(get_writeFile(i), lastSet[i].writeFile, TRUE)
        /\ ReadsAs(get_level(i), lastSet[i].level, info)
        /\ ReadsAs(get_timeFormat(i), lastSet[i].timeFormat, "D TT")
        /\ ReadsAs(get_logFormat(i), lastSet[i].logFormat,
                   <<"{time}", " [", "{level}", "] ", "{content}">>)

\* Instance 1 was set twice, instance 2 never, and instance 2 has just logged.
C6_Witness ==
    /\ instances = {1, 2}
    /\ budget.sets = 0
    /\ lastSet[1].level.set
    /\ get_level(1) = notice
    /\ lastSet[1].writeFile.set
    /\ ~get_writeFile(1)
    /\ Logged
    /\ last.call.inst = 2
    /\ get_level(2) = info
    /\ get_writeFile(2)
    /\ get_path(2) = <<"cwd", "logs">>

---------------------------------------------------------------------------
(* C7 as stated: for a call from user code through a per-level operation,  *)
(* with 3 or more frames resolved, the file line and the console line both *)
(* have the location tokens replaced by the data of one frame, the call    *)
(* site in user code; with fewer than 3 frames the tokens stay as written  *)
(* in both.                                                                *)
LocateAt(message, frame) == Locate(message, <<frame, frame, frame>>)

\* The lines the last call produced.
ConsoleLine == Added(StreamOf(last.call.level))[1]

FileLine == LatestAfter.data[Len(LatestAfter.data)]

Unlocated(tag) ==
    Substitute(last.call.inst, tag, last.call.line, last.now)

Returned == Passed /\ ~last.call.thrown

Tokens == {"{time}", "{level}", "{content}"}

LocationTokens == {"{fileName}", "{lineNumber}", "{functionName}", "{columnNumber}"}

\* The content of the last call is plain text: nothing in it looks like a token
\* or like a replacement pattern.
PlainContent == Range(last.call.line) \cap (Tokens \cup LocationTokens \cup {"$&", "$$"}) = {}

C7_AsStated ==
    (/\ Returned
     /\ doWrite[last.call.inst]
     /\ Range(_format[last.call.inst]) \cap LocationTokens # {}
     /\ PlainContent) =>
        IF last.call.limit >= 3
        THEN /\ ConsoleLine =
                   LocateAt(Unlocated(LEVEL_COLOR(last.call.level)), last.call.stack[1])
             /\ FileLine =
                   LocateAt(Unlocated(LEVEL_TAG(last.call.level)), last.call.stack[1])
        ELSE /\ ConsoleLine = Unlocated(LEVEL_COLOR(last.call.level))
             /\ FileLine = Unlocated(LEVEL_TAG(last.call.level))

---------------------------------------------------------------------------
(* C9 as stated: substitution never rewrites a substituted value.  For     *)
(* every template and content, both lines are the template with each       *)
(* recognised token written in it replaced by its value (the location      *)
(* tokens when the variant's trace has 3 frames), the content standing     *)
(* unmodified where {content} stood.                                       *)
RECURSIVE Flatten(_)
Flatten(ss) == IF ss = <<>> THEN <<>> ELSE Head(ss) \o Flatten(Tail(ss))

\* The template with every token replaced in one pass.
OnePass(template, val) ==
    Flatten([k \in 1..Len(template) |->
                IF template[k] \in DOMAIN val THEN val[template[k]]
                ELSE <<template[k]>>])

Values(tag, trace) ==
    LET base == ("{time}" :> <<getTime(last.call.inst, last.now)>>)
                @@ ("{level}" :> <<tag>>)
                @@ ("{content}" :> last.call.line)
    IN IF Len(trace) < 3 THEN base
       ELSE base @@ ("{fileName}" :> <<trace[3].fileName>>)
                 @@ ("{lineNumber}" :> <<ToString(trace[3].lineNumber)>>)
                 @@ ("{functionName}" :> <<trace[3].functionName>>)
                 @@ ("{columnNumber}" :> <<ToString(trace[3].columnNumber)>>)

C9_AsStated ==
    (Returned /\ Range(last.call.line) \cap {"$&", "$$"} = {}) =>
        /\ ConsoleLine =
              OnePass(_format[last.call.inst],
                      Values(LEVEL_COLOR(last.call.level),
                             getSync(StackInLog(last.call.level, last.call.stack),
                                     last.call.limit)))
        /\ doWrite[last.call.inst] =>
              FileLine =
                 OnePass(_format[last.call.inst],
                         Values(LEVEL_TAG(last.call.level),
                                getSync(StackInWriteLine(last.call.level, last.call.stack),
                                        last.call.limit)))

---------------------------------------------------------------------------
(* C10: the rotate-then-append sequence is not atomic.  With the steps of  *)
(* two calls on one directory interleaved while latest.log is 24 hours     *)
(* old, a state is reached where the rotation is corrupted (the same file  *)
(* rotated twice, or a rename failing) and entries written before are      *)
(* lost; with the calls run one at a time no such state is reached.        *)
InFlight == {i \in instances : threads[i].pc # "idle"}

RenameFailed == \E i \in InFlight : "renameSync" \in threads[i].failed

Renamed(i) ==
    /\ i \in InFlight
    /\ "renameSync" \in Range(threads[i].ops)
    /\ "renameSync" \notin threads[i].failed

\* Two calls each renamed the latest.log they had found with the same birth time.
DoubleRotation ==
    \E i, j \in instances :
        /\ i # j
        /\ Renamed(i)
        /\ Renamed(j)
        /\ threads[i].birthtimeMs = threads[j].birthtimeMs

EntriesLost == OnDisk(fs) < written

C10_SyncKeepsRotationWhole ==
    mode = "sync" =>
        /\ ~RenameFailed
        /\ ~DoubleRotation
        /\ ~EntriesLost

\* Threads: the old file was rotated twice and the archive of its entries is gone.
C10_Witness ==
    /\ mode = "threads"
    /\ DoubleRotation
    /\ EntriesLost
    /\ \A p \in DOMAIN fs.files : OldEntry \notin Range(fs.files[p].data)

\* Threads: a rename failed and the line the other call had just written is gone.
C10_LostLine ==
    /\ mode = "threads"
    /\ RenameFailed
    /\ EntriesLost
    /\ \A i \in instances : threads[i].pc = "done" /\ threads[i].wrote = 1
    /\ Len(fs.files[output_of(DefaultPath)].data) = 1

=============================================================================
